---------------------------- MODULE Spec2Model ----------------------------
(***************************************************************************)
(* Register debug support of tock-register-interface (debug.rs).           *)
(*                                                                         *)
(* A RegisterDebugValue holds a copy of a register's value.  Its fmt walks *)
(* the type-level list FieldValueEnumTypes (Cons/Nil) with two closures:   *)
(* `data` reads the next field from the copy, `debug_field` appends one    *)
(* (name, value) pair to a DebugStruct.  Each closure owns a slice         *)
(* iterator and unwraps its next element.                                  *)
(***************************************************************************)
EXTENDS Integers, Sequences, FiniteSets, TLC

(* ------------------------------ bounds --------------------------------- *)

\* Longest field_names / fields / FieldValueEnumTypes sequence considered.
MaxLen == 3

\* Raw register values range over 0..MaxRaw.
MaxRaw == 15

(* ----------------------------- contexts -------------------------------- *)

\* Execution contexts, each owning one RegisterDebugValue.
Ctx == {1, 2}

\* The context the sequential specification runs in.
MainCtx == CHOOSE c \in Ctx : \A d \in Ctx : c <= d

\* data[c] before any value was captured.
NoSnap == -1

\* lastOut[c] before the value was rendered.
NoOut == [name |-> "", pairs |-> <<>>, closed |-> FALSE]

(* ------------------------- register descriptors ------------------------ *)

Raw == 0..MaxRaw

RECURSIVE Pow2(_)
Pow2(n) == IF n = 0 THEN 1 ELSE 2 * Pow2(n - 1)

\* Width in bits of the i-th field of the register layout (1-based).
FieldWidth(i) == IF i % 3 = 2 THEN 2 ELSE 1

RECURSIVE FieldShift(_)
FieldShift(i) == IF i = 1 THEN 0 ELSE FieldShift(i - 1) + FieldWidth(i - 1)

\* Field<T, R>: an unshifted mask and a shift.
FieldOf(i) == [mask |-> Pow2(FieldWidth(i)) - 1, shift |-> FieldShift(i)]

\* The variants of the i-th field's value enum: none, {X = 0, Y = 1}, {P = 1}.
VariantsOf(i) ==
    CASE i % 3 = 1 -> {}
      [] i % 3 = 2 -> {[name |-> "X", value |-> 0], [name |-> "Y", value |-> 1]}
      [] OTHER     -> {[name |-> "P", value |-> 1]}

AllNames == [i \in 1..MaxLen |-> "f" \o ToString(i - 1)]
AllFields == [i \in 1..MaxLen |-> FieldOf(i)]
AllEnums == [i \in 1..MaxLen |-> VariantsOf(i)]

\* An implementation of RegisterDebugInfo: name(), field_names(), fields()
\* and the FieldValueEnumTypes list.  The three sequences are declared
\* independently, so their lengths are drawn independently.
Descriptors ==
    {[name |-> "R",
      field_names |-> SubSeq(AllNames, 1, a),
      fields |-> SubSeq(AllFields, 1, b),
      enums |-> SubSeq(AllEnums, 1, n)] : a, b, n \in 0..MaxLen}

(* --------------------------- collaborators ----------------------------- *)

RECURSIVE BitAnd(_, _)
BitAnd(a, b) ==
    IF a = 0 \/ b = 0 THEN 0
    ELSE (a % 2) * (b % 2) + 2 * BitAnd(a \div 2, b \div 2)

\* Field::read: (val & (mask << shift)) >> shift.
FieldRead(field, val) ==
    BitAnd(val, field.mask * Pow2(field.shift)) \div Pow2(field.shift)

\* TryFromValue::try_from_value of a field value enum: the variant whose
\* discriminant is v, if there is one.
TryFromValue(variants, v) ==
    IF \E e \in variants : e.value = v
    THEN [some |-> TRUE, name |-> (CHOOSE e \in variants : e.value = v).name]
    ELSE [some |-> FALSE, name |-> ""]

\* Debug of an unsigned integer: its decimal text.
DebugUInt(v) == ToString(v)

\* The iterator ends one element early.
IterIsNoneEarly(s, pos) == pos + 1 >= Len(s)

\* slice::Iter::next at position pos (elements consumed so far): None.
IterIsNone(s, pos) == pos >= Len(s)

(* ------------------------------- state --------------------------------- *)

VARIABLES
    desc,         \* E: the RegisterDebugInfo implementation
    hw,           \* the value the backing register holds now
    data,         \* data[c]: RegisterDebugValue.data of context c
    hwAtCapture,  \* history: the register's value when data[c] was captured
    pc,           \* pc[c]: where context c is in fmt
    node,         \* node[c]: list elements the recursion has gone past
    fieldsPos,    \* fieldsPos[c]: elements `fields` has yielded
    namesPos,     \* namesPos[c]: elements `names` has yielded
    extracted,    \* extracted[c]: extracted_value of the current Cons
    agg,          \* agg[c]: the DebugStruct being built
    trace,        \* history: the closure invocations of the current walk
    lastOut       \* history: what the previous fmt of data[c] produced

vars == <<desc, hw, data, hwAtCapture, pc, node, fieldsPos, namesPos,
          extracted, agg, trace, lastOut>>

(* ------------------------------ fmt parts ------------------------------ *)

\* The closure reads the backing register instead of the copy.
SelfDataLive(c) == hw

\* The closure reads a buffer that all values share.
SelfDataShared(c) == data[MainCtx]

\* self.data, as read by the `data` closure.
SelfData(c) == data[c]

\* The names are iterated back to front.
FieldNamesRev(d) ==
    [i \in 1..Len(d.field_names) |->
        d.field_names[Len(d.field_names) + 1 - i]]

\* E::field_names(), as iterated by fmt.
FieldNames(d) == d.field_names

\* The fields are iterated back to front.
FieldsRev(d) == [i \in 1..Len(d.fields) |-> d.fields[Len(d.fields) + 1 - i]]

\* E::fields(), as iterated by fmt.
Fields(d) == d.fields

\* The iterator is kept across calls of fmt.
SliceIterKept(oldPos) == oldPos

\* slice.iter(): a fresh iterator starts before the first element, whatever
\* position an earlier iterator over the slice was left at.
SliceIter(oldPos) == 0

\* f.debug_struct(E::name()).
DebugStructNew(name) == [name |-> name, pairs |-> <<>>, closed |-> FALSE]

\* debug_struct.field(name, value).
DebugStructField(a, name, value) ==
    [a EXCEPT !.pairs = Append(@, <<name, value>>)]

\* debug_struct.finish().
DebugStructFinish(a) == [a EXCEPT !.closed = TRUE]

\* fields.next().unwrap_or_default(): no panic on an exhausted iterator.
FieldsUnwrapOrDefault(isNone) == "match"

\* fields.next().unwrap(): where the `data` closure goes on.
FieldsUnwrap(isNone) == IF isNone THEN "panicked" ELSE "match"

\* if let Some(name) = names.next(): an exhausted iterator skips the field.
NamesIfLetSome(isNone) == "walk"

\* names.next().unwrap(): where the `debug_field` closure goes on.
NamesUnwrap(isNone) == IF isNone THEN "panicked" ELSE "walk"

\* The None arm hands f a default instead of extracted_value.
MatchArmNoFallback(r, v) == IF r.some THEN r.name ELSE DebugUInt(0)

\* The match on H::try_from_value(extracted_value): what is handed to f.
MatchArm(r, v) == IF r.some THEN r.name ELSE DebugUInt(v)

\* The end-of-list type invokes the closures like a list element.
IsConsOrEmpty(enums, k) == k < Len(enums) \/ Len(enums) = 0

\* The list the recursion dispatches on is a Cons at position k.
IsCons(enums, k) == k < Len(enums)

\* Self::recurse_try_from_value: the recursion stays on the same element.
TailOfSelf(k) == k

\* T::recurse_try_from_value: the recursion goes on with the tail.
TailOf(k) == k + 1

(* ------------------------------ actions -------------------------------- *)

\* The types of the state.
TypeOK ==
    /\ desc \in Descriptors
    /\ hw \in Raw
    /\ data \in [Ctx -> Raw \cup {NoSnap}]
    /\ pc \in [Ctx -> {"idle", "walk", "match", "finished", "panicked"}]
    /\ node \in [Ctx -> 0..MaxLen]
    /\ fieldsPos \in [Ctx -> Nat]
    /\ namesPos \in [Ctx -> Nat]
    /\ extracted \in [Ctx -> Raw]

Init ==
    /\ desc \in Descriptors
    /\ hw \in Raw
    /\ data = [c \in Ctx |-> NoSnap]
    /\ hwAtCapture = [c \in Ctx |-> NoSnap]
    /\ pc = [c \in Ctx |-> "idle"]
    /\ node = [c \in Ctx |-> 0]
    /\ fieldsPos = [c \in Ctx |-> 0]
    /\ namesPos = [c \in Ctx |-> 0]
    /\ extracted = [c \in Ctx |-> 0]
    /\ agg = [c \in Ctx |-> NoOut]
    /\ trace = [c \in Ctx |-> <<>>]
    /\ lastOut = [c \in Ctx |-> NoOut]

\* The hardware changes the register.
HwChange(v) ==
    /\ v # hw
    /\ hw' = v
    /\ UNCHANGED <<desc, data, hwAtCapture, pc, node, fieldsPos, namesPos,
                   extracted, agg, trace, lastOut>>

\* A RegisterDebugValue is built from a read of the register.
Capture(c) ==
    /\ pc[c] = "idle"
    /\ data' = [data EXCEPT ![c] = hw]
    /\ hwAtCapture' = [hwAtCapture EXCEPT ![c] = hw]
    /\ lastOut' = [lastOut EXCEPT ![c] = NoOut]
    /\ UNCHANGED <<desc, hw, pc, node, fieldsPos, namesPos, extracted, agg,
                   trace>>

\* fmt up to the call of recurse_try_from_value: the DebugStruct is opened
\* and both iterators are created.
FmtBegin(c) ==
    /\ pc[c] = "idle"
    /\ data[c] # NoSnap
    /\ agg' = [agg EXCEPT ![c] = DebugStructNew(desc.name)]
    /\ namesPos' = [namesPos EXCEPT ![c] = SliceIter(namesPos[c])]
    /\ fieldsPos' = [fieldsPos EXCEPT ![c] = SliceIter(fieldsPos[c])]
    /\ node' = [node EXCEPT ![c] = 0]
    /\ trace' = [trace EXCEPT ![c] = <<>>]
    /\ pc' = [pc EXCEPT ![c] = "walk"]
    /\ UNCHANGED <<desc, hw, data, hwAtCapture, extracted, lastOut>>

\* Cons: `let extracted_value = data();` with
\* data = || fields.next().unwrap().read(self.data).
\* unwrap() either panics or yields the element: on None the closure does
\* not go on, so the read below never sees an exhausted iterator.
ConsData(c) ==
    /\ pc[c] = "walk"
    /\ IsCons(desc.enums, node[c])
    /\ LET isNone == IterIsNone(Fields(desc), fieldsPos[c])
           goOn == FieldsUnwrap(isNone)
       IN /\ trace' = [trace EXCEPT ![c] = Append(@, <<"data", node[c]>>)]
          /\ pc' = [pc EXCEPT ![c] = goOn]
          /\ IF goOn = "panicked"
             THEN UNCHANGED <<fieldsPos, extracted>>
             ELSE /\ fieldsPos' = [fieldsPos EXCEPT ![c] = @ + 1]
                  /\ extracted' =
                       [extracted EXCEPT ![c] =
                          IF isNone THEN 0
                          ELSE FieldRead(Fields(desc)[fieldsPos[c] + 1],
                                         SelfData(c))]
    /\ UNCHANGED <<desc, hw, data, hwAtCapture, node, namesPos, agg, lastOut>>

\* Cons: the match on try_from_value, the call of f with
\* f = |v| debug_struct.field(names.next().unwrap(), v), then the recursion
\* into the tail.  The name is unwrapped before field() is called, so a
\* panic appends nothing.
ConsMatch(c) ==
    /\ pc[c] = "match"
    /\ LET value == MatchArm(TryFromValue(desc.enums[node[c] + 1],
                                          extracted[c]), extracted[c])
           isNone == IterIsNone(FieldNames(desc), namesPos[c])
           goOn == NamesUnwrap(isNone)
       IN /\ trace' = [trace EXCEPT ![c] = Append(@, <<"f", node[c], value>>)]
          /\ pc' = [pc EXCEPT ![c] = goOn]
          /\ IF goOn = "panicked"
             THEN UNCHANGED <<namesPos, agg, node>>
             ELSE /\ namesPos' = [namesPos EXCEPT ![c] = IF isNone THEN @ ELSE @ + 1]
                  /\ agg' = [agg EXCEPT ![c] =
                               IF isNone THEN @
                               ELSE DebugStructField(
                                      @, FieldNames(desc)[namesPos[c] + 1], value)]
                  /\ node' = [node EXCEPT ![c] = TailOf(@)]
    /\ UNCHANGED <<desc, hw, data, hwAtCapture, fieldsPos, extracted, lastOut>>

\* Nil: the empty body; fmt goes on to debug_struct.finish().
NilFinish(c) ==
    /\ pc[c] = "walk"
    /\ ~IsCons(desc.enums, node[c])
    /\ agg' = [agg EXCEPT ![c] = DebugStructFinish(@)]
    /\ pc' = [pc EXCEPT ![c] = "finished"]
    /\ UNCHANGED <<desc, hw, data, hwAtCapture, node, fieldsPos, namesPos,
                   extracted, trace, lastOut>>

\* fmt has returned; the caller takes the output.
Return(c) ==
    /\ pc[c] = "finished"
    /\ lastOut' = [lastOut EXCEPT ![c] = agg[c]]
    /\ agg' = [agg EXCEPT ![c] = NoOut]
    /\ trace' = [trace EXCEPT ![c] = <<>>]
    /\ node' = [node EXCEPT ![c] = 0]
    /\ extracted' = [extracted EXCEPT ![c] = 0]
    /\ pc' = [pc EXCEPT ![c] = "idle"]
    /\ UNCHANGED <<desc, hw, data, hwAtCapture, fieldsPos, namesPos>>

Next ==
    \/ \E v \in Raw : HwChange(v)
    \/ Capture(MainCtx)
    \/ FmtBegin(MainCtx)
    \/ ConsData(MainCtx)
    \/ ConsMatch(MainCtx)
    \/ NilFinish(MainCtx)
    \/ Return(MainCtx)

Spec == Init /\ [][Next]_vars

(* ------------------- renders in independent contexts ------------------- *)

\* Every context holds a value captured earlier; the values are unrelated.
InitConc ==
    /\ desc \in Descriptors
    /\ hw = 0
    /\ data \in [Ctx -> Raw]
    /\ hwAtCapture = data
    /\ pc = [c \in Ctx |-> "idle"]
    /\ node = [c \in Ctx |-> 0]
    /\ fieldsPos = [c \in Ctx |-> 0]
    /\ namesPos = [c \in Ctx |-> 0]
    /\ extracted = [c \in Ctx |-> 0]
    /\ agg = [c \in Ctx |-> NoOut]
    /\ trace = [c \in Ctx |-> <<>>]
    /\ lastOut = [c \in Ctx |-> NoOut]

\* Each context renders its value once; the steps interleave freely.
NextConc ==
    \E c \in Ctx :
        \/ FmtBegin(c)
        \/ ConsData(c)
        \/ ConsMatch(c)
        \/ NilFinish(c)

SpecConc == InitConc /\ [][NextConc]_vars

(* ------------- two values captured from one live register -------------- *)

\* The three sequences of the descriptor have one length.
Aligned(d) ==
    /\ Len(d.field_names) = Len(d.enums)
    /\ Len(d.fields) = Len(d.enums)

InitIso == Init /\ Aligned(desc)

\* The register changes, both contexts capture it, one of them renders.
NextIso ==
    \/ \E v \in Raw : HwChange(v)
    \/ \E c \in Ctx : Capture(c)
    \/ FmtBegin(MainCtx)
    \/ ConsData(MainCtx)
    \/ ConsMatch(MainCtx)
    \/ NilFinish(MainCtx)
    \/ Return(MainCtx)

SpecIso == InitIso /\ [][NextIso]_vars

(* ------------------------------ properties ----------------------------- *)

Min(a, b) == IF a <= b THEN a ELSE b

\* Length of the FieldValueEnumTypes list.
N == Len(desc.enums)

\* What the decoder with the given variants makes of field value v.
Decoded(variants, v) ==
    IF \E e \in variants : e.value = v
    THEN (CHOOSE e \in variants : e.value = v).name
    ELSE ToString(v)

\* The i-th pair a render of raw value r has to show.
PairOf(i, r) ==
    <<desc.field_names[i], Decoded(desc.enums[i], FieldRead(desc.fields[i], r))>>

\* A cursor is shorter than the list.
Short == Len(desc.field_names) < N \/ Len(desc.fields) < N

\* The node at which the first exhausted cursor is hit.
FailNode == Min(Len(desc.fields), Len(desc.field_names))

\* C1: with field_names, fields and the list all of length N, a finished
\* render is the aggregate named name() holding exactly N pairs in
\* declaration order, the i-th being field_names[i] with decoder i applied to
\* fields[i].read(raw).
C1_RenderPairsInOrder ==
    \A c \in Ctx :
        (pc[c] = "finished" /\ Aligned(desc)) =>
            /\ agg[c].name = desc.name
            /\ agg[c].closed
            /\ Len(agg[c].pairs) = N
            /\ \A i \in 1..N : agg[c].pairs[i] = PairOf(i, data[c])

\* f0 passes through, f1 hits Y, f2 misses P: R { f0: 1, f1: Y, f2: 0 }.
C1_Witness ==
    /\ pc[MainCtx] = "finished"
    /\ Aligned(desc)
    /\ data[MainCtx] = 3
    /\ agg[MainCtx] = [name |-> "R", closed |-> TRUE,
                       pairs |-> << <<"f0", "1">>, <<"f1", "Y">>, <<"f2", "0">> >>]

\* C2: the walk invokes data and f alternately, data first, the k-th pair of
\* invocations belonging to node k; a walk that reaches the end of an N-node
\* list has made exactly N invocations of each.
C2_WalkAlternates ==
    \A c \in Ctx :
        /\ \A i \in 1..Len(trace[c]) :
              IF i % 2 = 1
              THEN trace[c][i][1] = "data" /\ trace[c][i][2] = (i - 1) \div 2
              ELSE trace[c][i][1] = "f" /\ trace[c][i][2] = (i - 2) \div 2
        /\ Len(trace[c]) <= 2 * N
        /\ pc[c] = "walk" => Len(trace[c]) = 2 * node[c]
        /\ pc[c] = "match" => Len(trace[c]) = 2 * node[c] + 1
        /\ pc[c] = "finished" =>
              /\ Len(trace[c]) = 2 * N
              /\ Cardinality({i \in 1..Len(trace[c]) : trace[c][i][1] = "data"}) = N
              /\ Cardinality({i \in 1..Len(trace[c]) : trace[c][i][1] = "f"}) = N

C2_Witness ==
    /\ pc[MainCtx] = "finished"
    /\ N = 3
    /\ Len(trace[MainCtx]) = 6

\* C3: what a node hands to f is the variant whose value is extracted_value
\* when there is one, and extracted_value itself otherwise; f is invoked once
\* per node either way and a miss raises no failure.
C3_VariantOrRaw ==
    \A c \in Ctx :
        LET n == Len(trace[c]) IN
        (n > 0 /\ trace[c][n][1] = "f") =>
            LET k == trace[c][n][2] + 1
                v == extracted[c]
                given == trace[c][n][3]
                hit == {e \in desc.enums[k] : e.value = v}
            IN /\ hit # {} => \E e \in hit : given = e.name
               /\ hit = {} => given = ToString(v)
               /\ Cardinality({i \in 1..n : trace[c][i][1] = "f"
                                            /\ trace[c][i][2] = k - 1}) = 1
               /\ pc[c] = "panicked" => namesPos[c] >= Len(desc.field_names)
               /\ pc[c] # "panicked" =>
                     agg[c].pairs[Len(agg[c].pairs)][2] = given

\* f1 = 2 is no variant of {X = 0, Y = 1} and shows as 2; f2 = 1 shows as P.
C3_Witness ==
    /\ pc[MainCtx] = "finished"
    /\ data[MainCtx] = 12
    /\ Len(agg[MainCtx].pairs) = 3
    /\ agg[MainCtx].pairs[2] = <<"f1", "2">>
    /\ agg[MainCtx].pairs[3] = <<"f2", "P">>

\* C4: when field_names or fields is shorter than the list, the render
\* panics at the node where the first cursor runs out: it never closes the
\* aggregate or returns, no closure is invoked after the failing one, and no
\* field is skipped.
C4_ShortCursorPanics ==
    \A c \in Ctx :
        Short =>
            /\ pc[c] # "finished"
            /\ ~agg[c].closed
            /\ lastOut[c] = NoOut
            /\ node[c] <= FailNode
            /\ Len(agg[c].pairs) <= FailNode
            /\ pc[c] = "match" => node[c] < Len(desc.fields)
            /\ pc[c] = "panicked" =>
                  /\ node[c] = FailNode
                  /\ Len(trace[c]) =
                        2 * FailNode
                        + (IF Len(desc.fields) <= Len(desc.field_names)
                           THEN 1 ELSE 2)

\* fields has one element, the list three: the second data call panics.
C4_Witness ==
    /\ pc[MainCtx] = "panicked"
    /\ Len(desc.fields) = 1
    /\ Len(desc.field_names) = 3
    /\ N = 3
    /\ Len(trace[MainCtx]) = 3

\* The lengths of field_names, fields and the list are not all equal.
Misaligned == ~Aligned(desc)

\* C5 as stated: a render over sequences of unequal lengths never finishes.
C5_AnyMismatchIsFatal ==
    \A c \in Ctx : Misaligned => pc[c] # "finished"

\* C5, amended: over sequences of unequal lengths the render panics exactly
\* when field_names or fields is shorter than the list.  When both are at
\* least as long, the render finishes with the first N names and fields and
\* leaves the surplus entries out.
C5_MismatchFatalOnlyWhenShort ==
    \A c \in Ctx :
        Misaligned =>
            /\ Short =>
                  /\ pc[c] # "finished"
                  /\ lastOut[c] = NoOut
                  /\ pc[c] = "walk" => node[c] < N
            /\ ~Short =>
                  /\ pc[c] # "panicked"
                  /\ pc[c] = "finished" =>
                        /\ agg[c].closed
                        /\ Len(agg[c].pairs) = N
                        /\ \A i \in 1..N : agg[c].pairs[i] = PairOf(i, data[c])
                        /\ namesPos[c] = N
                        /\ fieldsPos[c] = N

\* Three names and three fields over a list of two: f2 is left out.
C5_Witness ==
    /\ pc[MainCtx] = "finished"
    /\ Len(desc.field_names) = 3
    /\ Len(desc.fields) = 3
    /\ N = 2
    /\ Len(agg[MainCtx].pairs) = 2

\* C6: everything a render shows is computed from the value the register
\* held when the rendered RegisterDebugValue was built, whatever the register
\* holds by now and whatever was captured from it since.
C6_RendersCapturedValue ==
    \A c \in Ctx :
        /\ data[c] = hwAtCapture[c]
        /\ pc[c] = "match" =>
              extracted[c] = FieldRead(desc.fields[node[c] + 1], hwAtCapture[c])
        /\ \A i \in 1..Len(agg[c].pairs) :
              agg[c].pairs[i][2] =
                  Decoded(desc.enums[i],
                          FieldRead(desc.fields[i], hwAtCapture[c]))

\* The first value (5) is rendered after the register went on to 10 and a
\* second value was captured from it.
C6_Witness ==
    /\ pc[MainCtx] = "finished"
    /\ hwAtCapture[MainCtx] = 5
    /\ hwAtCapture[2] = 10
    /\ hw = 10
    /\ agg[MainCtx].pairs = << <<"f0", "1">>, <<"f1", "2">>, <<"f2", "0">> >>

\* C7: every render of one RegisterDebugValue produces what the previous
\* render of it produced, and starts both iterators at the first element.
C7_RenderRepeatable ==
    \A c \in Ctx :
        /\ (pc[c] = "finished" /\ lastOut[c] # NoOut) => agg[c] = lastOut[c]
        /\ (pc[c] = "walk" /\ node[c] = 0) =>
              namesPos[c] = 0 /\ fieldsPos[c] = 0

\* A second render, with the register changed since the capture.
C7_Witness ==
    /\ pc[MainCtx] = "finished"
    /\ lastOut[MainCtx] # NoOut
    /\ Len(agg[MainCtx].pairs) = 3
    /\ hw # data[MainCtx]

\* A render of raw value r run alone, from node k on with the pairs ps
\* gathered so far: the pairs it ends with, and whether it ends in a panic.
RECURSIVE RunAlone(_, _, _)
RunAlone(r, k, ps) ==
    IF k >= N THEN [pairs |-> ps, closed |-> TRUE, panicked |-> FALSE]
    ELSE IF k >= Len(desc.fields) \/ k >= Len(desc.field_names)
         THEN [pairs |-> ps, closed |-> FALSE, panicked |-> TRUE]
         ELSE RunAlone(r, k + 1, Append(ps, PairOf(k + 1, r)))

\* A step of a render changes neither a captured value nor the descriptor.
RenderKeepsInputs == data' = data /\ desc' = desc

\* Every context ends as its render would have ended alone.
EndsAsAlone ==
    \A c \in Ctx :
        LET alone == RunAlone(data[c], 0, <<>>) IN
        /\ pc[c] = "finished" =>
              /\ ~alone.panicked
              /\ agg[c] = [name |-> desc.name, pairs |-> alone.pairs,
                           closed |-> TRUE]
        /\ pc[c] = "panicked" =>
              /\ alone.panicked
              /\ agg[c] = [name |-> desc.name, pairs |-> alone.pairs,
                           closed |-> FALSE]
        /\ pc[c] \in {"walk", "match"} =>
              /\ Len(agg[c].pairs) <= Len(alone.pairs)
              /\ agg[c].pairs = SubSeq(alone.pairs, 1, Len(agg[c].pairs))

\* C8: the steps of a render leave the captured values and the descriptor
\* as they were, and under every interleaving of the contexts' steps each
\* render produces what it produces when run alone.
C8_IndependentRenders == []EndsAsAlone /\ [][RenderKeepsInputs]_vars

\* Both contexts are in the middle of a render of different values.
C8_Witness ==
    /\ pc[1] = "match" /\ node[1] = 2
    /\ pc[2] = "match" /\ node[2] = 1
    /\ data[1] = 5 /\ data[2] = 10
    /\ N = 3

\* C9: with field_names, fields and the list all of length N the render
\* never panics: it can always take its next step, takes exactly N field
\* steps, and finishes with the aggregate closed, all N pairs in it and both
\* iterators exhausted.
C9_AlignedRenderCompletes ==
    \A c \in Ctx :
        Aligned(desc) =>
            /\ pc[c] # "panicked"
            /\ node[c] <= N
            /\ pc[c] \in {"walk", "match"} =>
                  ENABLED (ConsData(c) \/ ConsMatch(c) \/ NilFinish(c))
            /\ agg[c].closed => Len(agg[c].pairs) = N
            /\ lastOut[c] # NoOut => Len(lastOut[c].pairs) = N
            /\ pc[c] = "finished" =>
                  /\ agg[c].closed
                  /\ node[c] = N
                  /\ Len(trace[c]) = 2 * N
                  /\ namesPos[c] = Len(desc.field_names)
                  /\ fieldsPos[c] = Len(desc.fields)

C9_Witness ==
    /\ pc[MainCtx] = "finished"
    /\ Aligned(desc)
    /\ N = 3
    /\ data[MainCtx] = MaxRaw
    /\ namesPos[MainCtx] = 3 /\ fieldsPos[MainCtx] = 3

\* C10: the end-of-list type invokes neither closure, so a walk that ends
\* has made two invocations per list element and none more; a render over
\* the empty list invokes nothing, moves neither iterator, does not panic
\* and finishes with the aggregate named name() holding no pairs.
C10_NilInvokesNothing ==
    \A c \in Ctx :
        /\ pc[c] = "finished" => Len(trace[c]) = 2 * N
        /\ N = 0 =>
              /\ trace[c] = <<>>
              /\ pc[c] \notin {"match", "panicked"}
              /\ pc[c] \in {"walk", "finished"} =>
                    namesPos[c] = 0 /\ fieldsPos[c] = 0
              /\ pc[c] = "finished" =>
                    agg[c] = [name |-> desc.name, pairs |-> <<>>,
                              closed |-> TRUE]

C10_Witness ==
    /\ pc[MainCtx] = "finished"
    /\ desc.enums = <<>>
    /\ desc.fields = <<>>
    /\ desc.field_names = <<>>
    /\ agg[MainCtx] = [name |-> "R", pairs |-> <<>>, closed |-> TRUE]

\* In every state of a render the two iterators are level between list
\* elements and `fields` is one ahead between an element's data call and its
\* f call; the pairs gathered carry the names in order, and the value about
\* to be named was read from the field of the same index as the name.
CursorsLevel ==
    \A c \in Ctx :
        /\ fieldsPos[c] - namesPos[c] \in {0, 1}
        /\ pc[c] \in {"idle", "walk", "finished"} => fieldsPos[c] = namesPos[c]
        /\ pc[c] = "match" => fieldsPos[c] = namesPos[c] + 1
        /\ pc[c] = "panicked" =>
              fieldsPos[c] - namesPos[c] =
                  (IF trace[c][Len(trace[c])][1] = "data" THEN 0 ELSE 1)
        /\ pc[c] # "idle" =>
              /\ namesPos[c] = node[c]
              /\ Len(agg[c].pairs) = namesPos[c]
              /\ \A i \in 1..Len(agg[c].pairs) :
                    agg[c].pairs[i][1] = desc.field_names[i]
        /\ pc[c] = "match" =>
              extracted[c] = FieldRead(desc.fields[node[c] + 1], data[c])

\* Within a render an iterator only moves forward and by one element:
\* `fields` in the data call and nowhere else, `names` in the f call and
\* nowhere else, the name taken being the one at the index of the field
\* just read.
CursorsStep ==
    \A c \in Ctx :
        pc[c] # "idle" =>
            /\ fieldsPos'[c] \in {fieldsPos[c], fieldsPos[c] + 1}
            /\ namesPos'[c] \in {namesPos[c], namesPos[c] + 1}
            /\ fieldsPos'[c] # fieldsPos[c] =>
                  /\ pc[c] = "walk" /\ pc'[c] = "match"
                  /\ namesPos'[c] = namesPos[c]
                  /\ node'[c] = node[c]
            /\ namesPos'[c] # namesPos[c] =>
                  /\ pc[c] = "match" /\ pc'[c] = "walk"
                  /\ fieldsPos'[c] = fieldsPos[c]
                  /\ node'[c] = node[c] + 1
                  /\ agg'[c].pairs[namesPos'[c]][1] = desc.field_names[fieldsPos[c]]
            /\ node'[c] > node[c] =>
                  namesPos'[c] = namesPos[c] + 1 /\ fieldsPos'[c] = node'[c]

\* C11: during a render the two iterators advance in lock-step: each moves
\* once per field and never back, `fields` only in the data call and `names`
\* only in the f call, so `fields` is level with `names` between fields and
\* one ahead between a node's data call and its f call, and the name the f
\* call attaches for node i is field_names[i] for the i whose fields[i] was
\* just read.
C11_CursorsLockStep == []CursorsLevel /\ [][CursorsStep]_vars

\* Between the data call and the f call of the second of three fields.
C11_Witness ==
    /\ pc[MainCtx] = "match"
    /\ N = 3 /\ Aligned(desc)
    /\ node[MainCtx] = 1
    /\ fieldsPos[MainCtx] = 2
    /\ namesPos[MainCtx] = 1
    /\ data[MainCtx] = 1

=============================================================================
